---- MODULE Spec2Model ----
(***************************************************************************)
(* scripts/prepare_wikipedia.py: the GPU-assignment shim                   *)
(* DistributedSonarTextBatchEmbedder.__call__ and the pipeline override    *)
(* DistributedFullPipeline.__init__, run by the worker processes of one    *)
(* node.  Each worker process is a state machine whose position pc is the  *)
(* source line it is about to execute.                                     *)
(***************************************************************************)
EXTENDS Integers, Sequences, FiniteSets, TLC

\* ------------------------------------------------------------------ bounds
NumWorkers == 2
MaxEnvLen == 2
MaxPid == 9
MaxGpus == 8
MaxBatches == 2
MaxRank == 3

\* the modulus of the process-id fallback, os.getpid() % 8
PidModulus == 8

VARIABLES
    device_count,   \* what torch.cuda.device_count() answers on this node
    environ,        \* per worker: the SLURM_PROCID entry of os.environ
    pid,            \* per worker: os.getpid()
    shard,          \* per worker: how many batches its shard holds
    full_config,    \* per worker: the FullPipelineConfig handed to the constructor
    base_encoder,   \* per worker: self.encoder as the base embedder's constructor leaves it
    pipeline,       \* per worker: the DistributedFullPipeline object
    encoder,        \* per worker: self.encoder of the pipeline's sonar_encoder
    pc,             \* per worker: "new", "idle", or the line of __call__ to run next
    calls,          \* per worker: how many times __call__ was entered
    batch,          \* per worker: the batch argument of the current call
    worker_id,      \* per worker: local of __call__, <<>> while unbound
    num_gpus,       \* per worker: local of __call__, <<>> while unbound
    gpu_id,         \* per worker: local of __call__, <<>> while unbound
    device,         \* per worker: local of __call__, <<>> while unbound
    trace,          \* per worker: the external calls the current call has made, in order
    result,         \* per worker: what the last call gave its caller
    nPlaced,        \* per worker: placement steps (lines 44-57) completed so far
    nSuper          \* per worker: base embedding calls (line 60) begun so far

vars == <<device_count, environ, pid, shard, full_config, base_encoder, pipeline,
          encoder, pc, calls, batch, worker_id, num_gpus, gpu_id, device, trace,
          result, nPlaced, nSuper>>

\* ------------------------------------------------------- strings and int()
DigitChars == <<"0", "1", "2", "3", "4", "5", "6", "7", "8", "9">>

DigitChar(d) == DigitChars[d + 1]

IsDigit(c) == \E d \in 0..9 : DigitChar(d) = c

DigitValue(c) == CHOOSE d \in 0..9 : DigitChar(d) = c

\* str(n) / the {n} of an f-string, for an integer n
RECURSIVE StrNat(_)
StrNat(n) == IF n < 10 THEN <<DigitChar(n)>>
             ELSE StrNat(n \div 10) \o <<DigitChar(n % 10)>>

Str(n) == IF n < 0 THEN <<"-">> \o StrNat(0 - n) ELSE StrNat(n)

RECURSIVE ParseDigits(_)
ParseDigits(s) == IF s = <<>> THEN 0
                  ELSE ParseDigits(SubSeq(s, 1, Len(s) - 1)) * 10 + DigitValue(s[Len(s)])

\* the characters an environment value is drawn from
EnvChars == {"0", "1", "3", "-", "a"}

EnvStrings == UNION {[1..n -> EnvChars] : n \in 0..MaxEnvLen}

\* int(s) accepts s: an optional sign followed by one or more digits
IsIntLiteral(s) ==
    LET body == IF s # <<>> /\ s[1] = "-" THEN Tail(s) ELSE s
    IN  /\ body # <<>>
        /\ \A i \in 1..Len(body) : IsDigit(body[i])

ParseInt(s) == IF s[1] = "-" THEN 0 - ParseDigits(Tail(s)) ELSE ParseDigits(s)

PyStr(s) == [type |-> "str", s |-> s, n |-> 0]
PyInt(n) == [type |-> "int", s |-> <<>>, n |-> n]

Unset == [set |-> FALSE, value |-> <<>>]
SetTo(s) == [set |-> TRUE, value |-> s]

\* os.environ.get("SLURM_PROCID", default)
environ_get(env, default) == IF env.set THEN PyStr(env.value) ELSE default

\* int() as it would be if a malformed string were read as 0 instead of raising
IntLenient(x) ==
    IF x.type = "int" THEN [ok |-> TRUE, n |-> x.n]
    ELSE IF IsIntLiteral(x.s) THEN [ok |-> TRUE, n |-> ParseInt(x.s)]
    ELSE [ok |-> TRUE, n |-> 0]

\* int(x): the integer, or ValueError (ok = FALSE) for a string that is no literal
int(x) ==
    IF x.type = "int" THEN [ok |-> TRUE, n |-> x.n]
    ELSE IF IsIntLiteral(x.s) THEN [ok |-> TRUE, n |-> ParseInt(x.s)]
    ELSE [ok |-> FALSE, n |-> 0]

\* line 45 with the fallback left as the bare process id
WorkerIdNoModulus(env, p) == int(environ_get(env, PyInt(p)))

\* int(os.environ.get("SLURM_PROCID", os.getpid() % 8))
WorkerIdExpr(env, p) == int(environ_get(env, PyInt(p % PidModulus)))

\* line 50 with the fallback's modulus in place of the device count
GpuIdFixedModulus(w, d) == w % PidModulus

\* line 50 with the modulus off by one
GpuIdOffByOne(w, d) == w % (d + 1)

\* gpu_id = worker_id % num_gpus
GpuIdOf(w, d) == w % d

\* device = f"cuda:{gpu_id}"
DeviceStr(g) == <<"c", "u", "d", "a", ":">> \o Str(g)

CpuStr == <<"c", "p", "u">>

\* ------------------------------------------------------------- the encoder
NoAttr == [has |-> FALSE, none |-> FALSE, device |-> <<>>]
NoneAttr == [has |-> TRUE, none |-> TRUE, device |-> <<>>]
ModelOn(dev) == [has |-> TRUE, none |-> FALSE, device |-> dev]

\* what the base embedder's constructor may leave in self.encoder
BaseEncoderStates == {NoAttr, NoneAttr, ModelOn(CpuStr)}

\* line 54 without its "is not None" half
ModelPresentNoNoneCheck(enc) == enc.has

\* hasattr(self, 'encoder') and self.encoder is not None
ModelPresent(enc) == enc.has /\ ~enc.none

HasGpus(n) == n > 0

\* line 60 as it would be inside the if of line 48
DelegatesOnlyWithGpus(n) == n > 0

\* line 60 is outside the if of line 48: the base call is reached whatever num_gpus is
DelegatesAfterPlacement(n) == TRUE

\* line 60 handing the base embedder something other than the batch
SuperArgDropped(b) == 0

\* super().__call__(batch): the argument handed to the base embedder
SuperArg(b) == b

\* ----------------------------------------------------------------- results
NoResult == [kind |-> "none", exc |-> "", at |-> "", value |-> 0]
Raised(e, line) == [kind |-> "raise", exc |-> e, at |-> line, value |-> 0]
Returned(v) == [kind |-> "return", exc |-> "", at |-> "", value |-> v]

\* the exceptions the base embedding call may raise
BaseExceptions == {"RuntimeError", "KeyError"}

BaseOutcomes == {"return"} \cup BaseExceptions

\* line 60 as it would be inside a try that swallows the exception
ShimResultSwallowing(outcome, arg) ==
    IF outcome = "return" THEN Returned(arg) ELSE Returned(0)

\* return super().__call__(batch): the base's value is returned, its exception
\* leaves __call__ as it is
ShimResult(outcome, arg) ==
    IF outcome = "return" THEN Returned(arg) ELSE Raised(outcome, "L60")

Ev(kind, dev, b, outcome) == [ev |-> kind, device |-> dev, batch |-> b, outcome |-> outcome]

\* ---------------------------------------------------------- configurations
NoConfig == [column |-> "", lang_value |-> ""]

\* the configuration run() builds
RunConfig == [splitter_config |-> [model_name |-> "sat-3l", max_sentence_len |-> 256],
              sonar_encoder_config |-> [column |-> "text_sentences", lang_value |-> "eng_Latn"]]

OtherConfig == [splitter_config |-> [model_name |-> "sat-12l", max_sentence_len |-> 128],
                sonar_encoder_config |-> [column |-> "text", lang_value |-> "fra_Latn"]]

FullConfigs == {RunConfig, OtherConfig}

NoPipeline == [config |-> RunConfig,
               splitter |-> [class |-> "", config |-> NoConfig],
               sonar_encoder |-> [class |-> "", original_config |-> NoConfig,
                                  init_arg |-> NoConfig]]

\* FullPipeline.__init__: stores the config and builds the two stages from it
FullPipeline_init(config) ==
    [config |-> config,
     splitter |-> [class |-> "SentenceSplitter", config |-> config.splitter_config],
     sonar_encoder |-> [class |-> "SonarTextBatchEmbedder", original_config |-> NoConfig,
                        init_arg |-> config.sonar_encoder_config]]

\* DistributedSonarTextBatchEmbedder.__init__
DistributedSonarTextBatchEmbedder_init(config) ==
    [class |-> "DistributedSonarTextBatchEmbedder", original_config |-> config,
     init_arg |-> config]

\* line 68 building the embedder from the wrong part of the config
DistributedFullPipeline_init_WrongConfig(config) ==
    LET self == FullPipeline_init(config)
    IN  [self EXCEPT !.sonar_encoder =
            DistributedSonarTextBatchEmbedder_init(self.config.splitter_config)]

\* DistributedFullPipeline.__init__
DistributedFullPipeline_init(config) ==
    LET self == FullPipeline_init(config)
    IN  [self EXCEPT !.sonar_encoder =
            DistributedSonarTextBatchEmbedder_init(self.config.sonar_encoder_config)]

\* -------------------------------------------------------------------- Init
\* the state of W freshly started worker processes, nothing constructed yet
Fresh(W) ==
    /\ pipeline = [w \in W |-> NoPipeline]
    /\ encoder = [w \in W |-> NoAttr]
    /\ pc = [w \in W |-> "new"]
    /\ calls = [w \in W |-> 0]
    /\ batch = [w \in W |-> 0]
    /\ worker_id = [w \in W |-> <<>>]
    /\ num_gpus = [w \in W |-> <<>>]
    /\ gpu_id = [w \in W |-> <<>>]
    /\ device = [w \in W |-> <<>>]
    /\ trace = [w \in W |-> <<>>]
    /\ result = [w \in W |-> NoResult]
    /\ nPlaced = [w \in W |-> 0]
    /\ nSuper = [w \in W |-> 0]

\* SLURM_PROCID and the process id of one process: any value of the variable, or
\* no variable and any process id
ProcessIdentities ==
    {<<SetTo(s), MaxPid>> : s \in EnvStrings} \cup {<<Unset, p>> : p \in 1..MaxPid}

\* one worker process, any environment
Init ==
    /\ device_count \in 0..MaxGpus
    /\ \E id \in ProcessIdentities :
          /\ environ = [w \in {1} |-> id[1]]
          /\ pid = [w \in {1} |-> id[2]]
    /\ shard = [w \in {1} |-> MaxBatches]
    /\ full_config \in [{1} -> FullConfigs]
    /\ base_encoder \in [{1} -> BaseEncoderStates]
    /\ Fresh({1})

\* the worker processes of one node sharing its devices: started by the cluster
\* scheduler, each with its rank in SLURM_PROCID
SlurmLaunch ==
    /\ \E rank \in [1..NumWorkers -> 0..MaxRank] :
          environ = [w \in 1..NumWorkers |-> SetTo(Str(rank[w]))]
    /\ pid = [w \in 1..NumWorkers |-> w]

\* or started locally (cluster="local", line 154), with no SLURM_PROCID and process
\* ids that are consecutive or a multiple of the fallback's modulus apart
LocalLaunch ==
    /\ environ = [w \in 1..NumWorkers |-> Unset]
    /\ \E stride \in {1, PidModulus} :
          pid = [w \in 1..NumWorkers |-> 1 + (w - 1) * stride]

InitWorkers ==
    /\ device_count \in 0..MaxRank
    /\ SlurmLaunch \/ LocalLaunch
    /\ shard = [w \in 1..NumWorkers |-> 1]
    /\ full_config = [w \in 1..NumWorkers |-> RunConfig]
    /\ base_encoder = [w \in 1..NumWorkers |-> ModelOn(CpuStr)]
    /\ Fresh(1..NumWorkers)

\* ----------------------------------------------------------------- actions
inputs == <<device_count, environ, pid, shard, full_config, base_encoder>>

locals == <<worker_id, num_gpus, gpu_id, device>>

\* DistributedFullPipeline(config), lines 64-68 (and 33-37 for the embedder)
Construct(w) ==
    /\ pc[w] = "new"
    /\ pipeline' = [pipeline EXCEPT ![w] = DistributedFullPipeline_init(full_config[w])]
    /\ encoder' = [encoder EXCEPT ![w] = base_encoder[w]]
    /\ pc' = [pc EXCEPT ![w] = "idle"]
    /\ UNCHANGED <<inputs, locals, calls, batch, trace, result, nPlaced, nSuper>>

\* the pipeline hands the next batch of the shard to sonar_encoder.__call__, line 39
Call(w) ==
    /\ pc[w] = "idle"
    /\ calls[w] < shard[w]
    /\ calls' = [calls EXCEPT ![w] = @ + 1]
    /\ batch' = [batch EXCEPT ![w] = calls[w] + 1]
    /\ worker_id' = [worker_id EXCEPT ![w] = <<>>]
    /\ num_gpus' = [num_gpus EXCEPT ![w] = <<>>]
    /\ gpu_id' = [gpu_id EXCEPT ![w] = <<>>]
    /\ device' = [device EXCEPT ![w] = <<>>]
    /\ trace' = [trace EXCEPT ![w] = <<>>]
    /\ result' = [result EXCEPT ![w] = NoResult]
    /\ pc' = [pc EXCEPT ![w] = "L45"]
    /\ UNCHANGED <<inputs, pipeline, encoder, nPlaced, nSuper>>

\* line 45
GetWorkerId(w) ==
    /\ pc[w] = "L45"
    /\ LET r == WorkerIdExpr(environ[w], pid[w])
       IN  IF r.ok
           THEN /\ worker_id' = [worker_id EXCEPT ![w] = <<r.n>>]
                /\ pc' = [pc EXCEPT ![w] = "L46"]
                /\ UNCHANGED result
           ELSE /\ result' = [result EXCEPT ![w] = Raised("ValueError", "L45")]
                /\ pc' = [pc EXCEPT ![w] = "idle"]
                /\ UNCHANGED worker_id
    /\ UNCHANGED <<inputs, pipeline, encoder, calls, batch, num_gpus, gpu_id, device,
                   trace, nPlaced, nSuper>>

\* line 46
DeviceCount(w) ==
    /\ pc[w] = "L46"
    /\ num_gpus' = [num_gpus EXCEPT ![w] = <<device_count>>]
    /\ trace' = [trace EXCEPT ![w] = Append(@, Ev("device_count", <<>>, 0, ""))]
    /\ pc' = [pc EXCEPT ![w] = "L48"]
    /\ UNCHANGED <<inputs, pipeline, encoder, calls, batch, worker_id, gpu_id, device,
                   result, nPlaced, nSuper>>

\* line 54 as it would be with a placed-once flag
RelocationDueOnFirstCall(w) == calls[w] = 1 /\ ModelPresent(encoder[w])

\* line 54, evaluated on self at every call
RelocationDue(w) == ModelPresent(encoder[w])

\* where __call__ goes once lines 48-57 are done
AfterPlacement(w) ==
    IF DelegatesAfterPlacement(num_gpus[w][1]) THEN "L60" ELSE "idle"

\* lines 48-57 when no device is visible: nothing is done
PlaceSkip(w) ==
    /\ pc[w] = "L48"
    /\ ~HasGpus(num_gpus[w][1])
    /\ pc' = [pc EXCEPT ![w] = AfterPlacement(w)]
    /\ nPlaced' = [nPlaced EXCEPT ![w] = @ + 1]
    /\ UNCHANGED <<inputs, locals, pipeline, encoder, calls, batch, trace, result, nSuper>>

\* lines 48-57 with a visible device: the model, if there is one, is moved to
\* cuda:{worker_id % num_gpus}; self.encoder.to(device) is an external call that
\* moves the model or raises
Place(w) ==
    /\ pc[w] = "L48"
    /\ HasGpus(num_gpus[w][1])
    /\ LET g == GpuIdOf(worker_id[w][1], num_gpus[w][1])
           dev == DeviceStr(g)
           printed == Ev("print", dev, 0, Str(worker_id[w][1]))
       IN  /\ gpu_id' = [gpu_id EXCEPT ![w] = <<g>>]
           /\ device' = [device EXCEPT ![w] = <<dev>>]
           /\ IF RelocationDue(w)
              THEN \E moved \in BOOLEAN :
                     IF moved
                     THEN /\ encoder' = [encoder EXCEPT ![w] = ModelOn(dev)]
                          /\ trace' = [trace EXCEPT ![w] =
                                          @ \o <<Ev("to", dev, 0, "ok"), printed>>]
                          /\ pc' = [pc EXCEPT ![w] = AfterPlacement(w)]
                          /\ nPlaced' = [nPlaced EXCEPT ![w] = @ + 1]
                          /\ UNCHANGED result
                     ELSE /\ trace' = [trace EXCEPT ![w] =
                                          Append(@, Ev("to", dev, 0, "RuntimeError"))]
                          /\ result' = [result EXCEPT ![w] = Raised("RuntimeError", "L55")]
                          /\ pc' = [pc EXCEPT ![w] = "idle"]
                          /\ UNCHANGED <<encoder, nPlaced>>
              ELSE /\ trace' = [trace EXCEPT ![w] = Append(@, printed)]
                   /\ pc' = [pc EXCEPT ![w] = AfterPlacement(w)]
                   /\ nPlaced' = [nPlaced EXCEPT ![w] = @ + 1]
                   /\ UNCHANGED <<encoder, result>>
    /\ UNCHANGED <<inputs, pipeline, calls, batch, worker_id, num_gpus, nSuper>>

\* line 60: the base embedder is called with the batch; it returns or raises
SuperCall(w) ==
    /\ pc[w] = "L60"
    /\ \E outcome \in BaseOutcomes :
          /\ trace' = [trace EXCEPT ![w] = Append(@, Ev("super", <<>>, SuperArg(batch[w]), outcome))]
          /\ result' = [result EXCEPT ![w] = ShimResult(outcome, SuperArg(batch[w]))]
    /\ nSuper' = [nSuper EXCEPT ![w] = @ + 1]
    /\ pc' = [pc EXCEPT ![w] = "idle"]
    /\ UNCHANGED <<inputs, locals, pipeline, encoder, calls, batch, nPlaced>>

ConstructStep == \E w \in DOMAIN pc : Construct(w)
CallStep == \E w \in DOMAIN pc : Call(w)
GetWorkerIdStep == \E w \in DOMAIN pc : GetWorkerId(w)
DeviceCountStep == \E w \in DOMAIN pc : DeviceCount(w)
PlaceSkipStep == \E w \in DOMAIN pc : PlaceSkip(w)
PlaceStep == \E w \in DOMAIN pc : Place(w)
SuperCallStep == \E w \in DOMAIN pc : SuperCall(w)

Next ==
    \/ ConstructStep
    \/ CallStep
    \/ GetWorkerIdStep
    \/ DeviceCountStep
    \/ PlaceSkipStep
    \/ PlaceStep
    \/ SuperCallStep

Spec == Init /\ [][Next]_vars

SpecWorkers == InitWorkers /\ [][Next]_vars

\* ------------------------------------------------------------------ claims
Workers == DOMAIN pc

\* the last call of worker w has left __call__
Finished(w) == pc[w] = "idle" /\ calls[w] > 0

Events(w, kind) == {i \in 1..Len(trace[w]) : trace[w][i].ev = kind}

\* the call's worker-id computation and model relocation did not raise
PlacementStepPassed(w) ==
    /\ ~(environ[w].set /\ ~IsIntLiteral(environ[w].value))
    /\ \A i \in Events(w, "to") : trace[w][i].outcome = "ok"

\* C1: whenever a call has selected a device for a worker id w >= 0 with d > 0
\* visible devices, the selected index g lies in [0, d) and w = q*d + g for some
\* q >= 0, i.e. g is w mod d; d is the node's visible device count.
C1_DeviceIndexIsWorkerIdModDeviceCount ==
    \A w \in Workers :
        (gpu_id[w] # <<>> /\ worker_id[w][1] >= 0) =>
            LET g == gpu_id[w][1]
                d == num_gpus[w][1]
                wid == worker_id[w][1]
            IN  /\ d = device_count
                /\ d > 0
                /\ g \in 0..(d - 1)
                /\ \E q \in 0..wid : wid = q * d + g

\* worker id 10 with 2 visible devices is given device index 0
C1_Witness ==
    \E w \in Workers :
        worker_id[w] = <<10>> /\ num_gpus[w] = <<2>> /\ gpu_id[w] = <<0>>

\* C2 as stated: every call that has left __call__ has invoked the base embedding
\* computation with the batch it received.
C2_EveryCallInvokesBase ==
    \A w \in Workers :
        Finished(w) => \E i \in Events(w, "super") : trace[w][i].batch = batch[w]

\* C2 amended: every call in which neither the worker-id computation nor the model
\* relocation raised has invoked the base embedding computation exactly once, with
\* the batch it received, and a value the base returned is what the call returns.
C2_CallPastPlacementInvokesBaseWithSameBatch ==
    \A w \in Workers :
        /\ (pc[w] # "new" /\ calls[w] > 0) => batch[w] = calls[w]
        /\ (Finished(w) /\ PlacementStepPassed(w)) =>
              /\ Cardinality(Events(w, "super")) = 1
              /\ \A i \in Events(w, "super") : trace[w][i].batch = batch[w]
              /\ result[w].kind = "return" => result[w].value = batch[w]

\* a second batch went through a relocation and reached the base embedder
C2_Witness ==
    \E w \in Workers :
        /\ Finished(w)
        /\ batch[w] = 2
        /\ \E i \in Events(w, "to") : trace[w][i].outcome = "ok"
        /\ \E i \in Events(w, "super") : trace[w][i].batch = 2

\* C3: once a call has found the visible device count to be 0, it makes no
\* relocation call and leaves the model where it was, raises no exception of its
\* own, goes on to the base embedding call, and has made that call when it ends.
C3_NoDeviceNoRelocation ==
    \A w \in Workers :
        (device_count = 0 /\ num_gpus[w] # <<>>) =>
            /\ num_gpus[w] = <<0>>
            /\ Events(w, "to") = {}
            /\ gpu_id[w] = <<>>
            /\ encoder[w] = base_encoder[w]
            /\ pc[w] \in {"L48", "L60", "idle"}
            /\ result[w].kind = "raise" => result[w].at = "L60"
            /\ Finished(w) => \E i \in Events(w, "super") : trace[w][i].batch = batch[w]

\* worker id 5, no visible device: no placement call, base embedding invoked
C3_Witness ==
    \E w \in Workers :
        /\ device_count = 0
        /\ worker_id[w] = <<5>>
        /\ Finished(w)
        /\ Events(w, "to") = {}
        /\ Events(w, "super") # {}

\* C4: with SLURM_PROCID unset, the worker id r a call computes lies in [0, 8) and
\* process_id = q*8 + r for some q >= 0, i.e. r is process_id mod 8.
C4_FallbackIsPidMod8 ==
    \A w \in Workers :
        (~environ[w].set /\ worker_id[w] # <<>>) =>
            /\ worker_id[w][1] \in 0..7
            /\ \E q \in 0..pid[w] : pid[w] = q * 8 + worker_id[w][1]

\* process id 9, no SLURM_PROCID: worker id 1
C4_Witness ==
    \E w \in Workers : ~environ[w].set /\ pid[w] = 9 /\ worker_id[w] = <<1>>

\* C5: with a visible device and no model (the attribute missing, or None), a call
\* that is past line 48 has made no relocation call and left the attribute as it
\* was, raises no exception of its own, and has made the base call when it ends.
C5_AbsentModelSkipsPlacement ==
    \A w \in Workers :
        (/\ num_gpus[w] # <<>>
         /\ device_count > 0
         /\ base_encoder[w] \in {NoAttr, NoneAttr}
         /\ pc[w] # "L48") =>
            /\ Events(w, "to") = {}
            /\ encoder[w] = base_encoder[w]
            /\ pc[w] \in {"L60", "idle"}
            /\ result[w].kind = "raise" => result[w].at = "L60"
            /\ Finished(w) => \E i \in Events(w, "super") : trace[w][i].batch = batch[w]

\* encoder is None, two visible devices: the call ended with the base call made
C5_Witness ==
    \E w \in Workers :
        /\ base_encoder[w] = NoneAttr
        /\ num_gpus[w] = <<2>>
        /\ Finished(w)
        /\ Events(w, "to") = {}
        /\ Events(w, "super") # {}

\* C6: a constructed DistributedFullPipeline keeps the config it was given, has
\* the splitter stage of the base FullPipeline built from that config, and has as
\* sonar_encoder a DistributedSonarTextBatchEmbedder built from
\* config.sonar_encoder_config.
C6_OnlyEmbeddingStageReplaced ==
    \A w \in Workers :
        pc[w] # "new" =>
            /\ pipeline[w].config = full_config[w]
            /\ pipeline[w].splitter = FullPipeline_init(full_config[w]).splitter
            /\ pipeline[w].splitter.class = "SentenceSplitter"
            /\ pipeline[w].splitter.config = full_config[w].splitter_config
            /\ pipeline[w].sonar_encoder.class = "DistributedSonarTextBatchEmbedder"
            /\ pipeline[w].sonar_encoder.original_config = full_config[w].sonar_encoder_config
            /\ pipeline[w].sonar_encoder.init_arg = full_config[w].sonar_encoder_config

\* a pipeline constructed from a configuration other than the one run() builds
C6_Witness ==
    \E w \in Workers :
        /\ pc[w] = "idle"
        /\ full_config[w] = OtherConfig
        /\ pipeline[w].sonar_encoder.class = "DistributedSonarTextBatchEmbedder"

\* C7: when the base embedding call raises, the call ends there with that very
\* exception given to the caller (no value returned, no second base call), and a
\* relocation made earlier in the call still stands.
C7_BaseExceptionPropagates ==
    \A w \in Workers :
        \A i \in Events(w, "super") :
            trace[w][i].outcome \in BaseExceptions =>
                /\ pc[w] = "idle"
                /\ i = Len(trace[w])
                /\ Cardinality(Events(w, "super")) = 1
                /\ result[w].kind = "raise"
                /\ result[w].exc = trace[w][i].outcome
                /\ result[w].at = "L60"
                /\ \A j \in Events(w, "to") :
                      /\ j < i
                      /\ encoder[w] = ModelOn(trace[w][j].device)

\* the model was moved to a device and the base call then raised KeyError
C7_Witness ==
    \E w \in Workers :
        /\ \E j \in Events(w, "to") : encoder[w] = ModelOn(trace[w][j].device)
        /\ \E i \in Events(w, "super") : trace[w][i].outcome = "KeyError"
        /\ result[w].exc = "KeyError"

\* C8: any two workers that have selected a device and whose ids are congruent
\* modulo the shared device count d hold the same device, and a worker's device is
\* fixed by its own id and d alone, whatever the other workers hold.
C8_CongruentWorkersShareDevice ==
    \A w1 \in Workers :
        /\ gpu_id[w1] # <<>> =>
              /\ num_gpus[w1] = <<device_count>>
              /\ gpu_id[w1][1] \in 0..(device_count - 1)
              /\ (worker_id[w1][1] - gpu_id[w1][1]) % device_count = 0
              /\ device[w1] = <<DeviceStr(gpu_id[w1][1])>>
        /\ \A w2 \in Workers :
              (/\ gpu_id[w1] # <<>>
               /\ gpu_id[w2] # <<>>
               /\ (worker_id[w1][1] - worker_id[w2][1]) % device_count = 0) =>
                  /\ device[w1] = device[w2]
                  /\ (Finished(w1) /\ Finished(w2) /\ PlacementStepPassed(w1)
                        /\ PlacementStepPassed(w2)) => encoder[w1] = encoder[w2]

\* every worker has placed its model, one device holds the models of two workers
\* with different ids and another device holds none
C8_Witness ==
    /\ \A w \in Workers : Finished(w) /\ Events(w, "to") # {} /\ PlacementStepPassed(w)
    /\ \E w1, w2 \in Workers :
          /\ w1 # w2
          /\ worker_id[w1] # worker_id[w2]
          /\ encoder[w1] = encoder[w2]
    /\ \E k \in 0..(device_count - 1) :
          \A w \in Workers : encoder[w] # ModelOn(DeviceStr(k))

\* C9: in every worker, completed placement steps and begun base calls alternate,
\* starting with a placement step: a call about to make its base call has its own
\* placement step behind it, and in each call, the first or a later one, the base
\* call is the last thing done, after the relocation wherever one is due.
C9_PlacementBeforeEachEmbedding ==
    \A w \in Workers :
        /\ nSuper[w] <= nPlaced[w]
        /\ nPlaced[w] <= nSuper[w] + 1
        /\ pc[w] = "L60" => nPlaced[w] = nSuper[w] + 1
        /\ pc[w] \in {"L45", "L46", "L48"} => nPlaced[w] = nSuper[w]
        /\ \A i \in Events(w, "super") :
              /\ i = Len(trace[w])
              /\ nPlaced[w] = nSuper[w]
              /\ (device_count > 0 /\ ModelPresent(base_encoder[w])) =>
                    \E j \in Events(w, "to") :
                        /\ j < i
                        /\ trace[w][j].outcome = "ok"
                        /\ encoder[w] = ModelOn(trace[w][j].device)

\* the second batch of a worker: relocation, then the base call
C9_Witness ==
    \E w \in Workers :
        /\ calls[w] = 2
        /\ nPlaced[w] = 2
        /\ nSuper[w] = 2
        /\ \E j \in Events(w, "to") : \E i \in Events(w, "super") : j < i

\* C10: a call made with SLURM_PROCID set to something that is no integer literal
\* ends at line 45 with a ValueError: the device count is never queried, nothing
\* is relocated, the base embedder is never called and the model stays where it was.
C10_MalformedWorkerIdFailsFirst ==
    \A w \in Workers :
        (/\ environ[w].set
         /\ ~IsIntLiteral(environ[w].value)
         /\ calls[w] > 0
         /\ pc[w] # "L45") =>
            /\ pc[w] = "idle"
            /\ result[w] = Raised("ValueError", "L45")
            /\ trace[w] = <<>>
            /\ worker_id[w] = <<>>
            /\ num_gpus[w] = <<>>
            /\ nSuper[w] = 0
            /\ encoder[w] = base_encoder[w]

\* SLURM_PROCID is "a" and a call has ended
C10_Witness ==
    \E w \in Workers :
        /\ environ[w] = SetTo(<<"a">>)
        /\ Finished(w)
        /\ result[w].exc = "ValueError"

====
